---- MODULE Spec2Model ----
(***************************************************************************)
(* A model of ino's build command (src/ino/commands/build.py):             *)
(*   - Build.scan_dependencies, the library dependency resolver;           *)
(*   - Build._appendNumberedEntries and Build.setup_flags, the flag        *)
(*     assembler;                                                          *)
(*   - Build._mergeDicts and Build._parseMenu, the configuration merger.   *)
(* Each component has its own specification (SpecDeps, SpecNum, SpecFlags, *)
(* SpecMenu) over its own variables; the variables of the other           *)
(* components keep their initial value.                                    *)
(***************************************************************************)
EXTENDS Integers, Sequences, FiniteSets, TLC

(***************************************************************************)
(* Generic helpers on sequences and sets.                                  *)
(***************************************************************************)
Range(s) == {s[n] : n \in 1..Len(s)}

NoDuplicates(s) == \A m, n \in 1..Len(s) : m # n => s[m] # s[n]

\* All the orders in which the elements of a finite set can be listed
\* (the iteration order of a Python set is not defined).
Orderings(S) ==
    {s \in [1..Cardinality(S) -> S] : \A m, n \in 1..Cardinality(S) : m # n => s[m] # s[n]}

\* The position of the first occurrence of x in s, 0 when x is not in s.
Pos(s, x) ==
    IF x \in Range(s) THEN CHOOSE n \in 1..Len(s) : s[n] = x /\ \A m \in 1..(n-1) : s[m] # x
    ELSE 0

(***************************************************************************)
(* Dependency resolver: Build.scan_dependencies                            *)
(***************************************************************************)
\* The number of candidate library directories (lib_dirs).
NumLibs == 3

LibNames == <<"Wire", "SPI", "Servo", "SD", "EEPROM">>

\* lib_dirs: the candidate library directories.
Libs == {LibNames[n] : n \in 1..NumLibs}

\* self.e.src_dir: the source root, which is not a candidate library.
SrcDir == "src"

Dirs == Libs \cup {SrcDir}

VARIABLES
    pc,            \* position in scan_dependencies
    used_libs,     \* the list used_libs
    scanned_libs,  \* the set scanned_libs
    pending,       \* what is left of the set the for loop iterates over
    lib,           \* the for loop's variable
    dep_libs,      \* the set dep_libs of the library being scanned
    snapshot,      \* the copy used_libs[:] the inner loop iterates over
    k,             \* the inner loop's position in the copy (1-based)
    i,             \* the inner loop's index i into used_libs (0-based)
    reported,      \* what _scan_dependencies returned for each directory scanned
    scans,         \* how many times _scan_dependencies ran make on each directory
    e_used_libs    \* self.e['used_libs']

depsVars == <<pc, used_libs, scanned_libs, pending, lib, dep_libs, snapshot, k, i,
              reported, scans, e_used_libs>>

\* The variables of _appendNumberedEntries, called on its own.
VARIABLES
    nm_pc,         \* "ready" before the call, "returned" after it
    table,         \* the argument table
    out,           \* the argument out, a list changed in place
    prefix,        \* the argument prefix
    start          \* the argument start

numVars == <<nm_pc, table, out, prefix, start>>

\* The variables of setup_flags.
VARIABLES
    fl_pc,         \* "ready" before the call, "returned" or "KeyError" after it
    board_name,    \* board['name']
    build,         \* board['build']
    args,          \* the flag strings of the command line
    version,       \* self.e.arduino_lib_version
    e              \* the environment self.e: the keys set so far and their values

flagVars == <<fl_pc, board_name, build, args, version, e>>

\* The variables of _parseMenu.
VARIABLES
    mn_pc,         \* "ready", then how the last call ended: "returned" or "KeyError"
    heap,          \* the dictionaries reachable from board, by identity
    args_menu,     \* args.menu, the selection string
    error,         \* the argument of the exception of the last call, "" if none
    printed,       \* the lines printed so far
    runs,          \* the number of calls of _parseMenu on the board so far
    before         \* the heap before the last call

menuVars == <<mn_pc, heap, args_menu, error, printed, runs, before>>

vars == <<depsVars, numVars, flagVars, menuVars>>

nonDepsVars == <<numVars, flagVars, menuVars>>

nonNumVars == <<depsVars, flagVars, menuVars>>

nonFlagVars == <<depsVars, numVars, menuVars>>

nonMenuVars == <<depsVars, numVars, flagVars>>

\* The value of a component's variables while another component runs.
IdleDeps ==
    /\ pc = "idle"
    /\ used_libs = <<>>
    /\ scanned_libs = {}
    /\ pending = {}
    /\ lib = ""
    /\ dep_libs = {}
    /\ snapshot = <<>>
    /\ k = 1
    /\ i = 0
    /\ reported = <<>>
    /\ scans = <<>>
    /\ e_used_libs = <<>>

IdleNum ==
    /\ nm_pc = "idle"
    /\ table = <<>>
    /\ out = <<>>
    /\ prefix = ""
    /\ start = 0

IdleFlags ==
    /\ fl_pc = "idle"
    /\ board_name = ""
    /\ build = <<>>
    /\ args = <<>>
    /\ version = <<>>
    /\ e = <<>>

IdleMenu ==
    /\ mn_pc = "idle"
    /\ heap = <<>>
    /\ args_menu = ""
    /\ error = ""
    /\ printed = <<>>
    /\ runs = 0
    /\ before = <<>>

\* The result of _scan_dependencies(dir, ...) when the candidates whose regex
\* matches a line of the dependency listing are `matched`.
_scan_dependencies(dir, matched) == {l \in matched : l # dir}

\* The condition of the while loop.
LoopCondListCompare(scanned, used) == TRUE

LoopCond(scanned, used) == scanned # Range(used)

\* The set the for loop iterates over.
ToScanAll(scanned, used) == Range(used)

ToScan(scanned, used) == Range(used) \ scanned

\* used_libs.append(used_libs.pop(i)), i counted from 0.
MoveToTailForgotten(s, idx) == s

MoveToTail(s, idx) ==
    [n \in 1..Len(s) |-> IF n <= idx THEN s[n]
                         ELSE IF n < Len(s) THEN s[n+1]
                         ELSE s[idx+1]]

\* dep_libs.remove(ulib)
RemoveDepKeep(deps, ulib) == deps

RemoveDep(deps, ulib) == deps \ {ulib}

\* used_libs.extend(dep_libs), the new dependencies listed in the given order.
ExtendDropped(used, order) == used

ExtendWith(used, order) == used \o order

InitDepsVars ==
    /\ pc = "start"
    /\ used_libs = <<>>
    /\ scanned_libs = {}
    /\ pending = {}
    /\ lib = SrcDir
    /\ dep_libs = {}
    /\ snapshot = <<>>
    /\ k = 1
    /\ i = 0
    /\ reported = [d \in Dirs |-> {}]
    /\ scans = [d \in Dirs |-> 0]
    /\ e_used_libs = <<>>

\* Line 395: the source root is scanned and its result listed in arbitrary order.
ScanSource ==
    /\ pc = "start"
    /\ \E matched \in SUBSET Libs :
         LET found == _scan_dependencies(SrcDir, matched) IN
         /\ \E order \in Orderings(found) : used_libs' = order
         /\ reported' = [reported EXCEPT ![SrcDir] = found]
    /\ scans' = [scans EXCEPT ![SrcDir] = @ + 1]
    /\ scanned_libs' = {}
    /\ pc' = "while"
    /\ UNCHANGED nonDepsVars
    /\ UNCHANGED <<pending, lib, dep_libs, snapshot, k, i, e_used_libs>>

\* Lines 368 and 357: make fails on a directory and Abort is raised.
ScanFails ==
    /\ \/ pc = "start" /\ scans' = [scans EXCEPT ![SrcDir] = @ + 1]
       \/ /\ pc = "for"
          /\ \E l \in pending : scans' = [scans EXCEPT ![l] = @ + 1]
    /\ pc' = "aborted"
    /\ UNCHANGED nonDepsVars
    /\ UNCHANGED <<used_libs, scanned_libs, pending, lib, dep_libs, snapshot, k, i,
                   reported, e_used_libs>>

\* Line 400, loop entered: the for loop's set is computed (line 401).
WhileEnter ==
    /\ pc = "while"
    /\ LoopCond(scanned_libs, used_libs)
    /\ pending' = ToScan(scanned_libs, used_libs)
    /\ pc' = "for"
    /\ UNCHANGED nonDepsVars
    /\ UNCHANGED <<used_libs, scanned_libs, lib, dep_libs, snapshot, k, i,
                   reported, scans, e_used_libs>>

\* Line 400, loop left; line 417.
WhileExit ==
    /\ pc = "while"
    /\ ~LoopCond(scanned_libs, used_libs)
    /\ e_used_libs' = used_libs
    /\ pc' = "done"
    /\ UNCHANGED nonDepsVars
    /\ UNCHANGED <<used_libs, scanned_libs, pending, lib, dep_libs, snapshot, k, i,
                   reported, scans>>

\* Lines 401-405: the for loop picks a library, scans it and starts the inner loop.
ScanLib ==
    /\ pc = "for"
    /\ \E l \in pending :
         /\ lib' = l
         /\ pending' = pending \ {l}
         /\ scans' = [scans EXCEPT ![l] = @ + 1]
         /\ \E matched \in SUBSET Libs :
              LET found == _scan_dependencies(l, matched) IN
              /\ dep_libs' = found
              /\ reported' = [reported EXCEPT ![l] = found]
    /\ snapshot' = used_libs
    /\ k' = 1
    /\ i' = 0
    /\ pc' = "inner"
    /\ UNCHANGED nonDepsVars
    /\ UNCHANGED <<used_libs, scanned_libs, e_used_libs>>

\* Line 401: the for loop is exhausted.
ForExit ==
    /\ pc = "for"
    /\ pending = {}
    /\ pc' = "while"
    /\ UNCHANGED nonDepsVars
    /\ UNCHANGED <<used_libs, scanned_libs, pending, lib, dep_libs, snapshot, k, i,
                   reported, scans, e_used_libs>>

\* Lines 405-411: one iteration of the inner loop.
InnerStep ==
    /\ pc = "inner"
    /\ k <= Len(snapshot)
    /\ IF snapshot[k] \in dep_libs
       THEN /\ used_libs' = MoveToTail(used_libs, i)
            /\ dep_libs' = RemoveDep(dep_libs, snapshot[k])
            /\ i' = i
       ELSE /\ i' = i + 1
            /\ UNCHANGED <<used_libs, dep_libs>>
    /\ k' = k + 1
    /\ UNCHANGED nonDepsVars
    /\ UNCHANGED <<pc, scanned_libs, pending, lib, snapshot, reported, scans, e_used_libs>>

\* Lines 414-415: the new dependencies are appended, the library is marked.
Extend ==
    /\ pc = "inner"
    /\ k > Len(snapshot)
    /\ \E order \in Orderings(dep_libs) : used_libs' = ExtendWith(used_libs, order)
    /\ scanned_libs' = scanned_libs \cup {lib}
    /\ pc' = "for"
    /\ UNCHANGED nonDepsVars
    /\ UNCHANGED <<pending, lib, dep_libs, snapshot, k, i, reported, scans, e_used_libs>>

NextDeps ==
    \/ ScanSource
    \/ ScanFails
    \/ WhileEnter
    \/ WhileExit
    \/ ScanLib
    \/ ForExit
    \/ InnerStep
    \/ Extend

InitDeps == InitDepsVars /\ IdleNum /\ IdleFlags /\ IdleMenu

SpecDeps == InitDeps /\ [][NextDeps]_vars

FairSpecDeps == SpecDeps /\ WF_vars(NextDeps)

(***************************************************************************)
(* Properties of the dependency resolver.                                  *)
(***************************************************************************)
\* The libraries reachable from the set S through the reported dependencies,
\* in at most n steps.
RECURSIVE ReachableFrom(_, _)
ReachableFrom(S, n) ==
    IF n = 0 THEN S
    ELSE ReachableFrom(S \cup UNION {reported[x] : x \in S}, n - 1)

\* No library depends on itself through the reported dependencies.
Acyclic == \A l \in Libs : l \notin ReachableFrom(reported[l], Cardinality(Libs))

\* C1: when the reported dependency relation is acyclic, the final used_libs
\* places every library before each library its own scan reported.
LinkOrder ==
    (pc = "done" /\ Acyclic) =>
        \A a \in Range(e_used_libs) : \A b \in reported[a] :
            Pos(e_used_libs, a) < Pos(e_used_libs, b)

\* C2: unless a scan fails, the loop of scan_dependencies eventually exits,
\* and then scanned_libs is the set of elements of used_libs.
Termination ==
    <>(pc = "aborted" \/ (pc = "done" /\ scanned_libs = Range(used_libs)))

\* The loop has exited although three libraries depend on each other in a
\* cycle.
TerminationWitness ==
    /\ pc = "done"
    /\ scanned_libs = Range(used_libs)
    /\ \E a, b, c \in Libs :
         /\ a # b /\ b # c /\ a # c
         /\ b \in reported[a] /\ c \in reported[b] /\ a \in reported[c]

\* C3: no library occurs twice in used_libs, in any state of the resolution.
UsedLibsDuplicateFree == NoDuplicates(used_libs)

\* A scan of a library in a dependency cycle has moved a library to the tail
\* and appended a new one.
DuplicateFreeWitness ==
    /\ pc = "for"
    /\ lib \in Libs
    /\ i < Len(snapshot)
    /\ Len(used_libs) > Len(snapshot)
    /\ \E x \in reported[lib] : lib \in reported[x]

\* C4: no directory is scanned twice, and when the loop has ended every
\* library of used_libs has been scanned, once.
ScannedExactlyOnce ==
    /\ \A d \in Dirs : scans[d] <= 1
    /\ pc = "done" => \A l \in Range(used_libs) : scans[l] = 1 /\ l \in scanned_libs

\* A library that was scanned before has just been moved to the tail by the
\* scan of another library.
ScannedOnceWitness ==
    /\ pc = "inner"
    /\ k > 1
    /\ snapshot[k-1] \in reported[lib]
    /\ snapshot[k-1] \in scanned_libs
    /\ scans[snapshot[k-1]] = 1
    /\ used_libs[Len(used_libs)] = snapshot[k-1]
    /\ used_libs # snapshot

\* C5: the sources use Wire and SPI, Wire uses SPI and SPI uses nothing: SPI
\* comes after Wire in the final used_libs.
WireBeforeSPI ==
    ( /\ pc = "done"
      /\ reported[SrcDir] = {"Wire", "SPI"}
      /\ reported["Wire"] = {"SPI"}
      /\ reported["SPI"] = {} )
    => Pos(e_used_libs, "Wire") < Pos(e_used_libs, "SPI")

WireBeforeSPIWitness ==
    /\ pc = "done"
    /\ reported[SrcDir] = {"Wire", "SPI"}
    /\ reported["Wire"] = {"SPI"}
    /\ reported["SPI"] = {}
    /\ e_used_libs = <<"Wire", "SPI">>

\* The candidate libraries reachable from the source root through the scan
\* results (self-matches are already left out of them).
Reachable == ReachableFrom(reported[SrcDir], Cardinality(Libs))

\* C13: when scan_dependencies finishes, the elements of used_libs are exactly
\* the libraries reachable from the source root through the scan results: no
\* reachable library is missing and no unreachable candidate is present.
TransitiveClosure ==
    pc = "done" => Range(e_used_libs) = Reachable

\* The source root includes one library only and a second is reached through
\* it; a third candidate, included by nothing reachable, stays out of the
\* list.
TransitiveClosureWitness ==
    /\ pc = "done"
    /\ \E a, b, c \in Libs :
         /\ a # b /\ a # c /\ b # c
         /\ reported[SrcDir] = {a}
         /\ reported[a] = {b}
         /\ reported[b] = {a}
         /\ Range(e_used_libs) = {a, b}
         /\ c \notin Range(e_used_libs)

(***************************************************************************)
(* Flag assembler: Build._appendNumberedEntries                            *)
(***************************************************************************)
\* The largest index of the numbered keys of the tables drawn.
MaxIndex == 4

\* prefix + str(i)
NumberedKey(pre, n) == pre \o ToString(n)

\* wrap([x]): a list-like value holding x alone; out += wrap([x]) appends it.
Wrap(x) == <<x>>

\* The while loop of lines 243-246, from index n on.
RECURSIVE AppendFrom(_, _, _, _)
AppendFrom(o, t, pre, n) ==
    IF NumberedKey(pre, n) \in DOMAIN t
    THEN AppendFrom(o \o Wrap(t[NumberedKey(pre, n)]), t, pre, n + 1)
    ELSE o

\* out after _appendNumberedEntries(out, table, prefix, start).
_appendNumberedEntriesFromZero(o, t, pre, st) == AppendFrom(o, t, pre, 0)

_appendNumberedEntries(o, t, pre, st) == AppendFrom(o, t, pre, st)

\* The example of the comment on lines 236-241.
DocTable ==
    [key \in {"squirrel", "a1", "a2", "a3", "a4", "a5", "a7"} |->
        CASE key = "squirrel" -> 3
          [] key = "a1" -> 1
          [] key = "a2" -> 1
          [] key = "a3" -> 2
          [] key = "a4" -> 3
          [] key = "a5" -> 5
          [] key = "a7" -> 13]

\* The keys and values of the tables drawn: a numbered family a0, a1, ...,
\* a key of the family "a1", a key of another family and an unnumbered key.
TableKeys == {NumberedKey("a", n) : n \in 0..MaxIndex} \cup {"a11", "b1", "squirrel"}

TableValues == {1, 2}

Tables == UNION {[keys -> TableValues] : keys \in SUBSET TableKeys}

Prefixes == {"a", "a1", "b"}

Starts == {0, 1, 2}

InitNum ==
    /\ nm_pc = "ready"
    /\ table \in Tables \cup {DocTable}
    /\ out \in {<<>>, <<7>>}
    /\ prefix \in Prefixes
    /\ start \in Starts
    /\ IdleDeps
    /\ IdleFlags
    /\ IdleMenu

\* A call of _appendNumberedEntries with the default wrap.
AppendNumberedEntries ==
    /\ nm_pc = "ready"
    /\ out' = _appendNumberedEntries(out, table, prefix, start)
    /\ nm_pc' = "returned"
    /\ UNCHANGED <<table, prefix, start>>
    /\ UNCHANGED nonNumVars

NextNum == AppendNumberedEntries

SpecNum == InitNum /\ [][NextNum]_vars

(***************************************************************************)
(* Properties of _appendNumberedEntries.                                   *)
(***************************************************************************)
\* The first index from st on whose key is missing from t.
FirstGap(t, pre, st) ==
    CHOOSE n \in st..(st + Cardinality(DOMAIN t)) :
        /\ NumberedKey(pre, n) \notin DOMAIN t
        /\ \A m \in st..(n-1) : NumberedKey(pre, m) \in DOMAIN t

\* C10: a call appends to out the values of prefix+start, prefix+(start+1),
\* ... in this order up to the first missing index and nothing else, behind
\* the prior contents of out.
GapTerminatedScan ==
    [][nm_pc = "ready" =>
        out' = out \o [m \in 1..(FirstGap(table, prefix, start) - start) |->
                          table[NumberedKey(prefix, start + m - 1)]]]_vars

\* The example of the comment: a1..a5 are appended behind the prior contents,
\* a7 (behind the gap at a6) and squirrel are not.
GapTerminatedScanWitness ==
    /\ nm_pc = "returned"
    /\ table = DocTable
    /\ prefix = "a"
    /\ start = 1
    /\ out = <<7, 1, 1, 2, 3, 5>>

(***************************************************************************)
(* Flag assembler: Build.setup_flags                                       *)
(***************************************************************************)
\* The largest index of the option and define keys of the profiles drawn.
MaxFlagIndex == 1

\* The start index of a call of _appendNumberedEntries that passes none.
DefaultStart == 0

\* str.split(sep), from character n on; cur is the piece being read.
RECURSIVE SplitFrom(_, _, _, _, _)
SplitFrom(s, sep, n, cur, acc) ==
    IF n > Len(s) THEN Append(acc, cur)
    ELSE IF SubSeq(s, n, n) = sep
         THEN SplitFrom(s, sep, n + 1, "", Append(acc, cur))
         ELSE SplitFrom(s, sep, n + 1, cur \o SubSeq(s, n, n), acc)

Split(s, sep) == SplitFrom(s, sep, 1, "", <<>>)

\* shlex.split of a string without quotes or escapes: its words.
NonEmpty(w) == w # ""

ShlexSplit(s) == SelectSeq(Split(s, " "), NonEmpty)

\* str.lower() on the letters the board names use.
LowerChar(c) ==
    CASE c = "A" -> "a"
      [] c = "S" -> "s"
      [] c = "T" -> "t"
      [] c = "P" -> "p"
      [] OTHER -> c

RECURSIVE LowerFrom(_, _)
LowerFrom(s, n) ==
    IF n > Len(s) THEN "" ELSE LowerChar(SubSeq(s, n, n)) \o LowerFrom(s, n + 1)

Lower(s) == LowerFrom(s, 1)

\* str.startswith
StartsWith(s, p) == Len(s) >= Len(p) /\ SubSeq(s, 1, Len(p)) = p

\* d[key] = v on a mapping.
Put(d, key, v) == [x \in DOMAIN d \cup {key} |-> IF x = key THEN v ELSE d[x]]

\* The dictionary of lines 256-261 and 320-325.
Names == [obj |-> "%s.o", lib |-> "lib%s.a", cpp |-> "%s.cpp", deps |-> "%s.d"]

\* Line 283: the option family.
OptionEntries(o, b) == _appendNumberedEntries(o, b, "option", 1)

\* Line 284: the define family, with the default start.
DefineEntriesFromOne(o, b) == _appendNumberedEntries(o, b, "define", 1)

DefineEntries(o, b) == _appendNumberedEntries(o, b, "define", DefaultStart)

\* Lines 274-289: the preprocessor flags before the variant directory.
CppFlags(b, a, ver, env, cpu, mcu) ==
    LET hard == <<cpu, mcu, "-DF_CPU=" \o b["f_cpu"],
                  "-DARDUINO=" \o ToString(ver.as_int),
                  env["incflag"] \o env["arduino_core_dir"]>>
        user == hard \o ShlexSplit(a.cppflags)
        numbered == DefineEntries(OptionEntries(user, b), b)
        vid == IF "vid" \in DOMAIN b
               THEN Append(numbered, "-DUSB_VID=" \o b["vid"]) ELSE numbered
    IN  IF "pid" \in DOMAIN b THEN Append(vid, "-DUSB_PID=" \o b["pid"]) ELSE vid

\* Lines 304-318: the linker flags.
PassThrough(flags) == [n \in 1..Len(flags) |-> "-Wl," \o flags[n]]

LdFlags(b, a, cpu, mcu) ==
    LET given == <<cpu, mcu>> \o PassThrough(ShlexSplit(a.ldflags))
        numbered == _appendNumberedEntries(
                        _appendNumberedEntries(given, b, "linkoption", 1),
                        b, "additionalobject", 1)
    IN  IF "linkscript" \in DOMAIN b
        THEN <<"-T" \o "/hardware/" \o b["linkscript"]>> \o numbered
        ELSE numbered

\* Lines 298-325: what follows the preprocessor flags.
RestOfFlags(b, a, env, cpu, mcu) ==
    LET e1 == Put(env, "cflags", ShlexSplit(a.cflags))
        e2 == Put(e1, "cxxflags",
                  _appendNumberedEntries(ShlexSplit(a.cxxflags), b, "cppoption", 1))
        e3 == Put(e2, "ldflags", LdFlags(b, a, cpu, mcu))
    IN  [exc |-> "none", e |-> Put(e3, "names", Names)]

\* Lines 268-271: the build section has no f_cpu; KeyError leaves the function
\* with the environment as it is at that line.
MissingFCpuAfterFlags(env, cpu, mcu) ==
    [exc |-> "KeyError", e |-> Put(env, "cppflags", <<cpu, mcu>>)]

MissingFCpu(env, cpu, mcu) == [exc |-> "KeyError", e |-> env]

\* setup_flags: the exception raised ("none" when it returns) and the
\* environment it leaves.
SetupFlagsResult(name, b, a, ver, env) ==
    LET e1 == Put(env, "incflag", IF "incflag" \in DOMAIN b THEN b["incflag"] ELSE "-I")
        cpu == IF "cpu" \in DOMAIN b THEN "-mcpu=" \o b["cpu"] ELSE ""
        mcu == IF "cpu" \notin DOMAIN b /\ "mcu" \in DOMAIN b
               THEN "-mmcu=" \o b["mcu"] ELSE ""
    IN  IF StartsWith(Lower(name), "spark")
        THEN [exc |-> "none",
              e |-> Put(Put(Put(Put(Put(e1, "cppflags", <<>>), "cflags", <<>>),
                                "cxxflags", <<>>), "ldflags", <<>>), "names", Names)]
        ELSE IF "f_cpu" \notin DOMAIN b
        THEN MissingFCpu(e1, cpu, mcu)
        ELSE LET e2 == Put(e1, "cppflags", CppFlags(b, a, ver, e1, cpu, mcu))
             IN  IF ~StartsWith(Lower(name), "arduino") \/ ver.major = 0
                 THEN RestOfFlags(b, a, e2, cpu, mcu)
                 ELSE IF "variant" \notin DOMAIN b
                 THEN [exc |-> "KeyError", e |-> e2]
                 ELSE RestOfFlags(b, a,
                          Put(e2, "cppflags",
                              Append(e2["cppflags"],
                                     e2["incflag"] \o e2["arduino_variants_dir"]
                                        \o "/" \o b["variant"])),
                          cpu, mcu)

\* The keys a build section may hold, and the value each holds when present.
BuildKeys ==
    {"incflag", "cpu", "mcu", "f_cpu", "vid", "variant", "linkscript",
     "cppoption1", "linkoption1"}
    \cup {NumberedKey("option", n) : n \in 1..MaxFlagIndex}
    \cup {NumberedKey("define", n) : n \in 0..MaxFlagIndex}

BuildValue(key) == "<" \o key \o ">"

BoardNames == {"Arduino Uno", "Teensy 3.1", "Spark Core"}

\* Arduino 0023 and Arduino 1.0.5.
Versions == {[major |-> 0, as_int |-> 23], [major |-> 1, as_int |-> 105]}

\* The defaults of lines 49-52.
DefaultArgs ==
    [cppflags |-> "-ffunction-sections -fdata-sections -g -Os -w",
     cflags |-> "",
     cxxflags |-> "-fno-exceptions",
     ldflags |-> "-Os --gc-sections"]

\* What discover leaves in the environment.
DiscoveredEnv(name, ver) ==
    IF StartsWith(Lower(name), "arduino") /\ ver.major # 0
    THEN [x \in {"arduino_core_dir", "arduino_variants_dir"} |->
             IF x = "arduino_core_dir" THEN "/cores/arduino" ELSE "/variants"]
    ELSE [x \in {"arduino_core_dir"} |-> "/cores/arduino"]

InitFlags ==
    /\ fl_pc = "ready"
    /\ board_name \in BoardNames
    /\ \E keys \in SUBSET BuildKeys : build = [key \in keys |-> BuildValue(key)]
    /\ args = DefaultArgs
    /\ version \in Versions
    /\ e = DiscoveredEnv(board_name, version)
    /\ IdleDeps
    /\ IdleNum
    /\ IdleMenu

\* A call of setup_flags.
SetupFlags ==
    /\ fl_pc = "ready"
    /\ LET r == SetupFlagsResult(board_name, build, args, version, e) IN
         /\ e' = r.e
         /\ fl_pc' = IF r.exc = "none" THEN "returned" ELSE r.exc
    /\ UNCHANGED <<board_name, build, args, version>>
    /\ UNCHANGED nonFlagVars

NextFlags == SetupFlags

SpecFlags == InitFlags /\ [][NextFlags]_vars

(***************************************************************************)
(* Properties of setup_flags.                                              *)
(***************************************************************************)
\* The values of the keys pre+st, pre+(st+1), ... of b up to the first gap.
FamilyValues(b, pre, st) ==
    [m \in 1..(FirstGap(b, pre, st) - st) |-> b[NumberedKey(pre, st + m - 1)]]

IsSpark == StartsWith(Lower(board_name), "spark")

\* The number of preprocessor flags in front of the numbered overrides: the
\* five hard-coded ones and the user's.
CppBase == 5 + Len(ShlexSplit(args.cppflags))

\* The number of preprocessor flags behind the numbered overrides.
CppTail ==
    (IF "vid" \in DOMAIN build THEN 1 ELSE 0)
    + (IF "pid" \in DOMAIN build THEN 1 ELSE 0)
    + (IF StartsWith(Lower(board_name), "arduino") /\ version.major # 0 THEN 1 ELSE 0)

\* The preprocessor flags hold, behind the user's flags, exactly the values
\* `expected`.
CppNumberedAre(expected) ==
    /\ Len(e["cppflags"]) = CppBase + Len(expected) + CppTail
    /\ SubSeq(e["cppflags"], CppBase + 1, CppBase + Len(expected)) = expected

\* C9 as claimed: the preprocessor flags receive the option family and then
\* the define family, both scanned from index 1 up to their first gap.
CppNumberedBothFromOne ==
    (fl_pc = "returned" /\ ~IsSpark) =>
        CppNumberedAre(FamilyValues(build, "option", 1) \o FamilyValues(build, "define", 1))

\* C9: the preprocessor flags receive the option family scanned from index 1
\* and then the define family scanned from index 0, each up to its first
\* gap; define1 without define0 contributes nothing.
CppNumberedFamilies ==
    (fl_pc = "returned" /\ ~IsSpark) =>
        CppNumberedAre(FamilyValues(build, "option", 1) \o FamilyValues(build, "define", 0))

\* A profile with option1 and define1 but no define0: the flags hold the
\* value of option1 and not that of define1.
CppNumberedFamiliesWitness ==
    /\ fl_pc = "returned"
    /\ ~IsSpark
    /\ "option1" \in DOMAIN build
    /\ "define1" \in DOMAIN build
    /\ "define0" \notin DOMAIN build
    /\ e["cppflags"][CppBase + 1] = BuildValue("option1")
    /\ BuildValue("define1") \notin Range(e["cppflags"])

\* The four flag sequences of the environment.
FlagSequences == {"cppflags", "cflags", "cxxflags", "ldflags"}

\* C11 as claimed: every profile whose build section lacks f_cpu makes
\* setup_flags fail, with none of the four flag sequences written.
MissingFCpuAlwaysFails ==
    (fl_pc # "ready" /\ "f_cpu" \notin DOMAIN build) =>
        (fl_pc = "KeyError" /\ FlagSequences \cap DOMAIN e = {})

\* C11: every profile whose name does not start with "spark" and whose build
\* section lacks f_cpu makes setup_flags fail with KeyError, and at the failure
\* none of the four flag sequences is in the environment; a "spark" profile
\* returns with the four sequences written empty, f_cpu or not.
MissingFCpuFailsClean ==
    (fl_pc # "ready" /\ "f_cpu" \notin DOMAIN build) =>
        IF IsSpark
        THEN fl_pc = "returned" /\ \A f \in FlagSequences : e[f] = <<>>
        ELSE fl_pc = "KeyError" /\ FlagSequences \cap DOMAIN e = {}

\* A profile that is not a "spark" one has an architecture field and numbered
\* overrides but no f_cpu: the call has failed with only incflag written.
MissingFCpuFailsCleanWitness ==
    /\ fl_pc = "KeyError"
    /\ ~IsSpark
    /\ "f_cpu" \notin DOMAIN build
    /\ {"cpu", "option1", "define0", "incflag"} \subseteq DOMAIN build
    /\ e["incflag"] = BuildValue("incflag")
    /\ FlagSequences \cap DOMAIN e = {}

(***************************************************************************)
(* Configuration merger: Build._mergeDicts and Build._parseMenu            *)
(*                                                                         *)
(* Python dictionaries are objects: the heap maps the identity of each     *)
(* dictionary to its contents, and a value of a dictionary is either a     *)
(* string or the identity of another dictionary. Identities start with #.  *)
(***************************************************************************)
\* The most choice fragments a profile's menu holds, all categories together.
MaxFrags == 2

\* The most calls of _parseMenu on one board.
MaxRuns == 2

\* type(val) == dict
IsDict(h, val) == val \in DOMAIN h

\* The order in which a dictionary yields its keys (iteritems, keys): one
\* fixed order on all keys.
KeyOrder == <<"name", "build", "menu", "core", "f_cpu", "mcu", "X", "Y", "c1", "c2">>

Keys(d) == LET Held(key) == key \in DOMAIN d IN SelectSeq(KeyOrder, Held)

\* d[key] = val on the dictionary of identity id.
Store(h, id, key, val) == [h EXCEPT ![id] = Put(h[id], key, val)]

\* Line 131: the recursive call, merging val into dest[key].
RecurseSwapped(h, destval, val) == <<val, destval>>

Recurse(h, destval, val) == <<destval, val>>

\* _mergeDicts(dest, src): the heap it leaves. MergeKeys is its for loop over
\* the keys still to visit.
RECURSIVE MergeKeys(_, _, _, _)
MergeKeys(h, dest, src, keys) ==
    IF keys = <<>> THEN h
    ELSE LET key == Head(keys)
             val == h[src][key]
             h1 == IF key \notin DOMAIN h[dest]
                   THEN Store(h, dest, key, val)
                   ELSE IF IsDict(h, val) /\ IsDict(h, h[dest][key])
                        THEN LET pair == Recurse(h, h[dest][key], val)
                             IN  MergeKeys(h, pair[1], pair[2], Keys(h[pair[2]]))
                        ELSE Store(h, dest, key, val)
         IN  MergeKeys(h1, dest, src, Tail(keys))

_mergeDicts(h, dest, src) == MergeKeys(h, dest, src, Keys(h[src]))

\* Lines 144-149: the dictionary choices of the selection, given as a string.
RECURSIVE ChoicesFrom(_, _)
ChoicesFrom(options, chosen) ==
    IF options = <<>> THEN chosen
    ELSE LET pair == Split(Head(options), ":")
         IN  ChoicesFrom(Tail(options),
                         IF Len(pair) < 2 THEN chosen ELSE Put(chosen, pair[1], pair[2]))

ParseChoices(menu) == ChoicesFrom(Split(menu, ","), <<>>)

\* ",".join(["'%s'" % s for s in options.keys()])
RECURSIVE JoinQuoted(_)
JoinQuoted(keys) ==
    IF keys = <<>> THEN ""
    ELSE IF Len(keys) = 1 THEN "'" \o keys[1] \o "'"
    ELSE "'" \o keys[1] \o "'," \o JoinQuoted(Tail(keys))

\* The identity of the dictionary selectedOptions of a call.
Selected == "#selectedOptions"

\* Line 161: failed += 1
CountFailureAsFlag(failed) == 1

CountFailure(failed) == failed + 1

\* Lines 155-169: the loop over the items of the menu still to visit. st holds
\* the heap, the counter failed and the lines printed.
RECURSIVE MenuLoop(_, _, _, _)
MenuLoop(st, menu, items, choices) ==
    IF items = <<>> THEN st
    ELSE LET item == Head(items)
             options == st.h[st.h[menu][item]]
             next ==
                IF item \in DOMAIN choices
                THEN IF choices[item] \notin DOMAIN options
                     THEN [st EXCEPT
                             !.printed = Append(@, "'" \o choices[item]
                                 \o "' is not a valid choice for " \o item
                                 \o " (valid choices are: " \o JoinQuoted(Keys(options))
                                 \o ")."),
                             !.failed = CountFailure(@)]
                     ELSE [st EXCEPT !.h = _mergeDicts(@, Selected, options[choices[item]])]
                ELSE IF Len(Keys(options)) = 0
                     THEN st
                     ELSE [st EXCEPT
                             !.printed = Append(@, "No option specified for " \o item
                                 \o ". Defaulting to '" \o Keys(options)[1] \o "'."),
                             !.h = _mergeDicts(@, Selected, options[Keys(options)[1]])]
         IN  MenuLoop(next, menu, Tail(items), choices)

\* The dictionaries other than selectedOptions, which is dropped when the
\* call ends.
Collect(h) == [id \in DOMAIN h \ {Selected} |-> h[id]]

\* del d[key]
Delete(d, key) == [x \in DOMAIN d \ {key} |-> d[x]]

\* _parseMenu(args, board): the exception raised ("none" when it returns),
\* its argument, the heap left and the lines printed.
ParseMenuResult(h, menu_arg) ==
    IF "menu" \notin DOMAIN h["#board"]
    THEN [exc |-> "none", arg |-> "", h |-> h, printed |-> <<>>]
    ELSE LET choices == ParseChoices(menu_arg)
             menu == h["#board"]["menu"]
             h0 == [id \in DOMAIN h \cup {Selected} |->
                       IF id = Selected THEN <<>> ELSE h[id]]
             st == MenuLoop([h |-> h0, failed |-> 0, printed |-> <<>>],
                            menu, Keys(h0[menu]), choices)
         IN  IF st.failed > 0
             THEN [exc |-> "KeyError",
                   arg |-> ToString(st.failed) \o " invalid menu choices",
                   h |-> Collect(st.h), printed |-> st.printed]
             ELSE IF "name" \notin DOMAIN st.h[Selected]
             THEN [exc |-> "KeyError", arg |-> "name",
                   h |-> Collect(st.h), printed |-> st.printed]
             ELSE LET h1 == [st.h EXCEPT ![Selected] = Delete(@, "name")]
                  IN  [exc |-> "none", arg |-> "",
                       h |-> Collect(_mergeDicts(h1, "#board", Selected)),
                       printed |-> st.printed]

(***************************************************************************)
(* The profiles drawn: a board with a name, possibly a build section and   *)
(* possibly a menu of up to two categories of up to two choices each. A    *)
(* choice's fragment may hold a name and, under build, a string or a       *)
(* dictionary with one key. The values of a fragment name the fragment.    *)
(***************************************************************************)
CatNames == <<"X", "Y">>

ChoiceNames == <<"c1", "c2">>

Templates == [name : BOOLEAN, build : {"absent", "string", "f_cpu", "mcu"}]

CatId(c) == "#menu." \o CatNames[c]

FragId(c, j) == CatId(c) \o "." \o ChoiceNames[j]

FragBuildId(c, j) == FragId(c, j) \o ".build"

FragValue(c, j, key) == CatNames[c] \o "." \o ChoiceNames[j] \o " " \o key

\* The fragment of the j-th choice of category c, built after template t.
Fragment(c, j, t) ==
    [key \in (IF t.name THEN {"name"} ELSE {})
              \cup (IF t.build = "absent" THEN {} ELSE {"build"}) |->
        IF key = "name" THEN FragValue(c, j, "name")
        ELSE IF t.build = "string" THEN FragValue(c, j, "build")
        ELSE FragBuildId(c, j)]

\* The heap of a board with the given sections; nc[c] is the number of
\* choices of category c and fr[<<c, j>>] the template of its j-th choice.
ProfileHeap(hasMenu, hasBuild, nc, fr) ==
    LET cats == IF hasMenu THEN DOMAIN nc ELSE {}
        frags == {p \in cats \X (1..Len(ChoiceNames)) : p[2] <= nc[p[1]]}
        trees == {p \in frags : fr[p].build \in {"f_cpu", "mcu"}}
        ids == {"#board"}
               \cup (IF hasBuild THEN {"#build"} ELSE {})
               \cup (IF hasMenu THEN {"#menu"} ELSE {})
               \cup {CatId(c) : c \in cats}
               \cup {FragId(p[1], p[2]) : p \in frags}
               \cup {FragBuildId(p[1], p[2]) : p \in trees}
    IN  [id \in ids |->
            IF id = "#board"
            THEN [key \in {"name"} \cup (IF hasBuild THEN {"build"} ELSE {})
                                  \cup (IF hasMenu THEN {"menu"} ELSE {}) |->
                     IF key = "name" THEN "Teensy 3.1" ELSE "#" \o key]
            ELSE IF id = "#build"
            THEN [key \in {"core", "f_cpu"} |-> "board " \o key]
            ELSE IF id = "#menu"
            THEN [key \in {CatNames[c] : c \in cats} |-> "#menu." \o key]
            ELSE IF \E c \in cats : id = CatId(c)
            THEN LET c == CHOOSE c \in cats : id = CatId(c)
                 IN  [key \in {ChoiceNames[j] : j \in 1..nc[c]} |-> id \o "." \o key]
            ELSE IF \E p \in frags : id = FragId(p[1], p[2])
            THEN LET p == CHOOSE p \in frags : id = FragId(p[1], p[2])
                 IN  Fragment(p[1], p[2], fr[p])
            ELSE LET p == CHOOSE p \in trees : id = FragBuildId(p[1], p[2])
                 IN  [key \in {fr[p].build} |-> FragValue(p[1], p[2], key)]]

\* The selection strings drawn: for each category no choice, one of its
\* choices or a choice it does not have; and strings with a pair without
\* colon, a category the menu does not have, a category named twice, a pair
\* with two colons.
CategorySelections(c) ==
    {""} \cup {CatNames[c] \o ":" \o choice : choice \in {"c1", "c2", "bad"}}

JoinSelection(x, y) == IF x = "" THEN y ELSE IF y = "" THEN x ELSE x \o "," \o y

Selections ==
    {JoinSelection(x, y) : x \in CategorySelections(1), y \in CategorySelections(2)}
    \cup {"X", "Z:c1,Y:c1", "X:bad,X:c1", "Y:c1:x"}

InitMenu ==
    /\ mn_pc = "ready"
    /\ \E hasMenu, hasBuild \in BOOLEAN :
       \E n \in 0..Len(CatNames) :
       \E nc \in [1..n -> 0..Len(ChoiceNames)] :
         LET frags == {p \in (1..n) \X (1..Len(ChoiceNames)) : p[2] <= nc[p[1]]} IN
         /\ hasMenu \/ n = 0
         /\ Cardinality(frags) <= MaxFrags
         /\ \E fr \in [frags -> Templates] :
              heap = ProfileHeap(hasMenu, hasBuild, nc, fr)
    /\ args_menu \in Selections
    /\ error = ""
    /\ printed = <<>>
    /\ runs = 0
    /\ before = heap
    /\ IdleDeps
    /\ IdleNum
    /\ IdleFlags

\* A call of _parseMenu on the board, with the selection string of args.
ParseMenu ==
    /\ runs < MaxRuns
    /\ LET r == ParseMenuResult(heap, args_menu) IN
         /\ heap' = r.h
         /\ mn_pc' = IF r.exc = "none" THEN "returned" ELSE r.exc
         /\ error' = r.arg
         /\ printed' = printed \o r.printed
    /\ before' = heap
    /\ runs' = runs + 1
    /\ UNCHANGED args_menu
    /\ UNCHANGED nonMenuVars

NextMenu == ParseMenu

SpecMenu == InitMenu /\ [][NextMenu]_vars

(***************************************************************************)
(* Properties of _parseMenu.                                               *)
(***************************************************************************)
\* The contents of the dictionary id and of those below it, as the set of
\* its paths, each with the string it leads to or with "<dict>".
RECURSIVE Leaves(_, _, _)
Leaves(h, id, path) ==
    UNION {IF IsDict(h, h[id][key])
           THEN {<<Append(path, key), "<dict>">>} \cup Leaves(h, h[id][key], Append(path, key))
           ELSE {<<Append(path, key), h[id][key]>>} : key \in DOMAIN h[id]}

BoardTree(h) == Leaves(h, "#board", <<>>)

\* The board's configuration outside its menu section.
OutsideMenu(h) == {l \in BoardTree(h) : l[1][1] # "menu"}

HasMenu(h) == "menu" \in DOMAIN h["#board"]

\* The categories the menu of h declares.
Declared(h) == DOMAIN h[h["#board"]["menu"]]

ChoicesOf(h, cat) == DOMAIN h[h[h["#board"]["menu"]][cat]]

\* The declared categories for which menu_arg selects a choice they lack.
InvalidCategories(h, menu_arg) ==
    {cat \in Declared(h) :
        /\ cat \in DOMAIN ParseChoices(menu_arg)
        /\ ParseChoices(menu_arg)[cat] \notin ChoicesOf(h, cat)}

\* The declared categories with a choice for which menu_arg selects none.
DefaultedCategories(h, menu_arg) ==
    {cat \in Declared(h) :
        cat \notin DOMAIN ParseChoices(menu_arg) /\ ChoicesOf(h, cat) # {}}

\* C6: when the selection names a choice a declared category lacks, the call
\* fails once, with the number of such categories, after a line was printed
\* for every category with an invalid or a defaulted choice, and the board is
\* unchanged outside its menu section.
InvalidChoicesBatched ==
    (runs >= 1 /\ HasMenu(before) /\ InvalidCategories(before, args_menu) # {}) =>
        /\ mn_pc = "KeyError"
        /\ error = ToString(Cardinality(InvalidCategories(before, args_menu)))
                      \o " invalid menu choices"
        /\ Len(printed) = runs * ( Cardinality(InvalidCategories(before, args_menu))
                                   + Cardinality(DefaultedCategories(before, args_menu)) )
        /\ OutsideMenu(heap) = OutsideMenu(before)

\* The choice selected for X is invalid; Y, visited after X, is still
\* defaulted to a fragment that holds a build section, and the failure counts
\* X alone.
InvalidChoicesBatchedWitness ==
    /\ runs = 1
    /\ args_menu = "X:bad"
    /\ mn_pc = "KeyError"
    /\ error = "1 invalid menu choices"
    /\ Len(printed) = 2
    /\ "#menu.Y.c1.build" \in DOMAIN heap
    /\ "#build" \in DOMAIN heap

\* The overlay of the tree B on the tree A, both as sets of paths: a path of A
\* is kept unless B holds the same path or a string above it.
IsPrefix(p, q) == Len(p) <= Len(q) /\ SubSeq(q, 1, Len(p)) = p

Overlay(A, B) ==
    {l \in A : ~\E m \in B : /\ IsPrefix(m[1], l[1])
                            /\ (m[1] = l[1] \/ m[2] # "<dict>")} \cup B

\* The overlay, in the order of the menu, of the first fragment of every
\* category of cats that has a choice.
RECURSIVE FirstChoices(_, _)
FirstChoices(h, cats) ==
    IF cats = <<>> THEN {}
    ELSE LET options == h[h[h["#board"]["menu"]][cats[Len(cats)]]]
             front == FirstChoices(h, SubSeq(cats, 1, Len(cats) - 1))
         IN  IF DOMAIN options = {} THEN front
             ELSE Overlay(front, Leaves(h, options[Keys(options)[1]], <<>>))

\* C7 as claimed: with the empty selection the call returns, and the board
\* outside its menu is its former self overlaid with the first fragment of
\* every category that has one, the key name left out.
DefaultsMerged ==
    (runs = 1 /\ HasMenu(before) /\ args_menu = "") =>
        /\ mn_pc = "returned"
        /\ OutsideMenu(heap) =
             Overlay(OutsideMenu(before),
                     {l \in FirstChoices(before, Keys(before[before["#board"]["menu"]])) :
                         l[1] # <<"name">>})

\* C8: when every selected choice is valid, a second call with the same
\* selection leaves the board, menu included, as the first call left it.
SecondCallChangesNothing ==
    (runs = 2 /\ HasMenu(before) /\ InvalidCategories(before, args_menu) = {}) =>
        BoardTree(heap) = BoardTree(before)

\* The second call returned and the board holds the override of the selected
\* fragment, as after the first call.
SecondCallWitness ==
    /\ runs = 2
    /\ mn_pc = "returned"
    /\ args_menu = "X:c2"
    /\ "#build" \in DOMAIN heap
    /\ heap["#build"]["f_cpu"] = "X.c2 f_cpu"
    /\ BoardTree(heap) = BoardTree(before)

\* C12: on a profile with a menu section the call raises an error exactly when
\* some declared category has a selected choice it lacks, and returns in every
\* other case.
ErrorIffInvalidChoice ==
    (runs >= 1 /\ HasMenu(before)) =>
        IF InvalidCategories(before, args_menu) # {}
        THEN mn_pc = "KeyError"
        ELSE mn_pc = "returned"

\* The menu section of the board: its categories, their choices and the
\* fragments with their nested trees.
MenuTree(h) == {l \in BoardTree(h) : l[1][1] = "menu"}

\* C14: a call of _parseMenu, returning or failing, leaves every fragment
\* under the board's menu section with the content it had before the call.
MenuSectionUnchanged ==
    (runs >= 1 /\ HasMenu(before)) => MenuTree(heap) = MenuTree(before)

====
